---- MODULE Spec2Model ----
(***************************************************************************)
(* ch-grafana-cache: the variable-combination enumerator, the caching      *)
(* ClickHouse client and the replay driver, as a state machine.            *)
(*                                                                         *)
(* Strings are sequences of one-character strings, so that the regular     *)
(* expression of src/variables.rs and the line/tab parsing of              *)
(* src/clickhouse.rs are computed rather than assumed.                     *)
(***************************************************************************)
EXTENDS Integers, Sequences, FiniteSets, TLC

VARIABLES
    tpl,    \* substitute_variables: the template given (argument sql)
    asg,    \* substitute_variables: the assignment given (argument variables)
    res,    \* substitute_variables: the value returned, or NoResult
    cache,  \* ChClient.cache: query text -> rows, shared by the clones
    net,    \* the requests put on the wire, in order
    calls,  \* the calls of query and query_native made, in order of start
    call,   \* per caller: where its current client call stands
    flaky,  \* the call whose requests met transient failures, 0 when none did
    dashboard,      \* main_impl: the dashboard retrieved
    config,         \* main_impl: variables_config, name -> values
    pc,             \* main_impl: where the run stands
    combinations,   \* variables_combinations: the working list
    combinations2,  \* variables_combinations: the list being built for var
    vi,             \* variables_combinations: position of var in the variables
    ai,             \* variables_combinations: position of assignment in combinations
    resp,           \* get_variants: the rows query returned
    ci,             \* main_impl: position of combination in combinations
    pi,             \* main_impl: position of panel in the panels
    ti,             \* main_impl: position of sql in panel.sql()
    bytes,          \* main_impl: bytes received for the combination so far
    exit            \* main_impl: what the run returned, or NoResult

substVars == <<tpl, asg, res>>

clientVars == <<cache, net, calls, call, flaky>>

enumVars == <<combinations, combinations2, vi, ai, resp>>

replayVars == <<ci, pi, ti, bytes>>

mainVars == <<dashboard, config, pc, combinations, combinations2, vi, ai, resp,
              ci, pi, ti, bytes, exit>>

vars == <<tpl, asg, res, cache, net, calls, call, flaky, dashboard, config, pc,
          combinations, combinations2, vi, ai, resp, ci, pi, ti, bytes, exit>>

\* ------------------------------------------------------------------ values

NoResult == [kind |-> "none"]

Ok(v) == [kind |-> "ok", val |-> v]

Err(e) == [kind |-> "err", err |-> e]

IsOk(r) == r.kind = "ok"

IsErr(r) == r.kind = "err"

\* The empty HashMap (a function with an empty domain).
EmptyMap == [k \in {} |-> <<>>]

\* HashMap::insert: the entry for key k is set, an earlier one replaced.
MapInsert(m, k, v) == [x \in DOMAIN m \cup {k} |-> IF x = k THEN v ELSE m[x]]

\* The concatenations of at most n sequences of S.
RECURSIVE Concats(_, _)
Concats(S, n) ==
    IF n = 0 THEN {<<>>}
    ELSE LET shorter == Concats(S, n - 1) IN
         shorter \cup {s \o c : s \in shorter, c \in S}

\* ---------------------------------------------------- src/variables.rs

\* The text inserted for a token whose variable is missing.
ERROR == <<"E", "R", "R", "O", "R">>

\* The end of the match of \$\{(.*?)\} that starts at i, or 0 when there is
\* none: "$" "{" at i, then the shortest run of characters other than a
\* line feed ('.' excludes it) up to the first "}".
RECURSIVE LazyEnd(_, _)
LazyEnd(sql, j) ==
    IF j > Len(sql) THEN 0
    ELSE IF sql[j] = "}" THEN j
    ELSE IF sql[j] = "\n" THEN 0
    ELSE LazyEnd(sql, j + 1)

MatchEnd(sql, i) ==
    IF i + 1 <= Len(sql) /\ sql[i] = "$" /\ sql[i + 1] = "{"
    THEN LazyEnd(sql, i + 2)
    ELSE 0

\* substitute_variable: the value of the captured name, or NotFound(name).
substitute_variable(name, variables) ==
    IF name \in DOMAIN variables
    THEN Ok(variables[name])
    ELSE Err(name)

\* VARIABLE_RE.replace_all with the closure of substitute_variables: one pass
\* from position i, matches leftmost and non-overlapping; the replacement is
\* appended verbatim and is not scanned again.  Returns the text built and
\* the errors pushed, in order.
RECURSIVE ReplaceAll(_, _, _, _, _)
ReplaceAll(sql, variables, i, out, errors) ==
    IF i > Len(sql) THEN [sql |-> out, errors |-> errors]
    ELSE LET e == MatchEnd(sql, i) IN
         IF e = 0
         THEN ReplaceAll(sql, variables, i + 1, Append(out, sql[i]), errors)
         ELSE LET r == substitute_variable(SubSeq(sql, i + 2, e - 1), variables) IN
              IF IsOk(r)
              THEN ReplaceAll(sql, variables, e + 1, out \o r.val, errors)
              ELSE ReplaceAll(sql, variables, e + 1, out \o ERROR,
                              Append(errors, r.err))

\* substitute_variables with the bail forgotten after the first error only.
substitute_variables_first(sql, variables) ==
    LET r == ReplaceAll(sql, variables, 1, <<>>, <<>>) IN
    IF r.errors # <<>>
    THEN Err([kind |-> "subst", names |-> <<Head(r.errors)>>])
    ELSE Ok(r.sql)

\* substitute_variables without the check of the errors collected.
substitute_variables_nobail(sql, variables) ==
    Ok(ReplaceAll(sql, variables, 1, <<>>, <<>>).sql)

\* substitute_variables: the substituted text, or one error that carries the
\* "Variable {0} not found" line of every error collected.
substitute_variables(sql, variables) ==
    LET r == ReplaceAll(sql, variables, 1, <<>>, <<>>) IN
    IF r.errors # <<>>
    THEN Err([kind |-> "subst", names |-> r.errors])
    ELSE Ok(r.sql)

\* ---------------------------------------------------- src/clickhouse.rs

\* build_with_max_retries(3): retries allowed after the first attempt.
MAX_RETRIES == 3

\* str::lines: the text is cut after every line feed; the line feed, and a
\* carriage return right before it, are dropped; text after the last line
\* feed is a last line; an empty text has no line.
StripCR(line) ==
    IF line # <<>> /\ line[Len(line)] = "\r"
    THEN SubSeq(line, 1, Len(line) - 1)
    ELSE line

RECURSIVE LinesFrom(_, _, _, _)
LinesFrom(text, i, cur, acc) ==
    IF i > Len(text) THEN (IF cur = <<>> THEN acc ELSE Append(acc, cur))
    ELSE IF text[i] = "\n" THEN LinesFrom(text, i + 1, <<>>, Append(acc, StripCR(cur)))
    ELSE LinesFrom(text, i + 1, Append(cur, text[i]), acc)

Lines(text) == LinesFrom(text, 1, <<>>, <<>>)

\* l.split('\t'): the pieces between tabs; a line without tab is one piece.
RECURSIVE SplitFrom(_, _, _, _)
SplitFrom(l, i, cur, acc) ==
    IF i > Len(l) THEN Append(acc, cur)
    ELSE IF l[i] = "\t" THEN SplitFrom(l, i + 1, <<>>, Append(acc, cur))
    ELSE SplitFrom(l, i + 1, Append(cur, l[i]), acc)

\* ResultRow { cols } of one line.
ResultRow(l) == [cols |-> SplitFrom(l, 1, <<>>, <<>>)]

n_cols(r) == Len(r.cols)

\* The rows of a TSV response body, one per line.
ParseRows(body) == LET ls == Lines(body) IN [i \in 1..Len(ls) |-> ResultRow(ls[i])]

\* The ensure! of query: every row has as many columns as the first.
ConsistentColumns(rows) ==
    rows # <<>> => \A i \in 1..Len(rows) : n_cols(rows[i]) = n_cols(rows[1])

\* The bodies the server answers with under a success status.  The tables
\* behind the drawn query texts give each text two possible answers: rows of
\* one column, no row, rows of two columns, rows of unequal column counts.
TsvAnswers(text) ==
    IF text = <<"q">> THEN {<<"u", "\n">>, <<"v", "\n", "w">>}
    ELSE IF text = <<"r">> THEN {<<"u", "\t", "v", "\n">>, <<"u", "\n", "v", "\t", "w", "\n">>}
    ELSE IF text = <<"q", "x">> THEN {<<"u", "\n">>, <<"u", "\t", "v", "\n">>}
    ELSE IF text = <<"q", "y">> THEN {<<"v", "\n", "w">>, <<>>}
    ELSE {<<"u", "\n">>, <<"u", "\n", "v", "\t", "w", "\n">>}

NativeAnswers(text) == {<<"b", "b", "b">>}

Answers(format, text) ==
    IF format = "TSV" THEN TsvAnswers(text) ELSE NativeAnswers(text)

\* What one attempt can end in: a success status with a body; a failure
\* that is not retried (a client-error status, a body that fails to arrive);
\* a transient failure (a 5xx, 408 or 429 status, or a connection error).
Outcomes(format, text) ==
    {[kind |-> "ok", body |-> b] : b \in Answers(format, text)}
        \cup {[kind |-> "fatal"], [kind |-> "transient"]}

IdleFrame == [pc |-> "idle", id |-> 0, retry |-> 0]

\* ChClient::from_flags: an empty cache; nothing sent yet.
ClientIdle(callers) ==
    /\ cache = EmptyMap
    /\ net = <<>>
    /\ calls = <<>>
    /\ call = [c \in callers |-> IdleFrame]
    /\ flaky = 0

Returned == {i \in 1..Len(calls) : calls[i].res # NoResult}

NewCall(c, op, text, useCache, result, for) ==
    [caller |-> c, op |-> op, text |-> text, cache |-> useCache, res |-> result,
     for |-> for,
     began |-> Cardinality(Returned),
     ended |-> IF result = NoResult THEN 0 ELSE Cardinality(Returned) + 1]

\* One attempt on the wire: the request and, once it has arrived, the response.
Request(id, format, text, retry) ==
    [call |-> id, format |-> format, text |-> text, retry |-> retry,
     got |-> NoResult]

\* The attempt of call id now waited for receives response o.
Respond(n, id, retry, o) ==
    [k \in 1..Len(n) |->
        IF n[k].call = id /\ n[k].retry = retry THEN [n[k] EXCEPT !.got = o] ELSE n[k]]

\* The lookup of query finding nothing, whatever the cache holds.
CacheLookup_miss(useCache, text) == NoResult

\* The lookup of query: under the lock, the cached rows of the text if any.
CacheLookup(useCache, text) ==
    IF useCache /\ text \in DOMAIN cache THEN Ok(cache[text]) ELSE NoResult

\* The start of query(text, cache) by caller c, up to its first suspension
\* ("for" notes what the caller makes the call for):
\* a hit returns the cached rows; otherwise send_query puts the request on
\* the wire with format TSV.
ClientQuery(c, text, useCache, for) ==
    LET hit == CacheLookup(useCache, text)
        id == Len(calls) + 1 IN
    /\ calls' = Append(calls, NewCall(c, "query", text, useCache, hit, for))
    /\ IF hit # NoResult
       THEN /\ call' = [call EXCEPT ![c] = [pc |-> "ret", id |-> id, retry |-> 0]]
            /\ net' = net
       ELSE /\ call' = [call EXCEPT ![c] = [pc |-> "wait", id |-> id, retry |-> 0]]
            /\ net' = Append(net, Request(id, "TSV", text, 0))
    /\ UNCHANGED <<cache, flaky>>

\* The start of query_native(text) by caller c: send_query with format
\* Native, whatever the cache holds.
ClientQueryNative(c, text, for) ==
    LET id == Len(calls) + 1 IN
    /\ calls' = Append(calls, NewCall(c, "query_native", text, FALSE, NoResult, for))
    /\ call' = [call EXCEPT ![c] = [pc |-> "wait", id |-> id, retry |-> 0]]
    /\ net' = Append(net, Request(id, "Native", text, 0))
    /\ UNCHANGED <<cache, flaky>>

\* send_query once the middleware has an answer or has given up retrying:
\* the response body, or the error of the transport or of the status check
\* (an error met while the body is read ends the call the same way).
SendQueryResult(o) ==
    IF o.kind = "ok" THEN Ok(o.body)
    ELSE Err([kind |-> "transport", why |-> o.kind])

\* query without its ensure!.
QueryRows_lenient(sent) ==
    IF IsErr(sent) THEN sent ELSE Ok(ParseRows(sent.val))

\* query after send_query: the body is read and cut into rows, the column
\* counts are compared.
QueryRows(sent) ==
    IF IsErr(sent) THEN sent
    ELSE LET rows == ParseRows(sent.val) IN
         IF ConsistentColumns(rows) THEN Ok(rows)
         ELSE Err([kind |-> "columns"])

\* query_native after send_query: the stream is consumed and its bytes
\* counted.
NativeBytes(sent) ==
    IF IsErr(sent) THEN sent
    ELSE Ok(Len(sent.val))

\* The second lock of query replacing the map by the one entry.
CacheInsert_only(m, useCache, text, result) ==
    IF useCache /\ IsOk(result) THEN (text :> result.val) ELSE m

\* The second lock of query taken whatever the cache flag of the call.
CacheInsert_always(m, useCache, text, result) ==
    IF IsOk(result) /\ result.val \in Seq([cols : Seq(Seq(STRING))])
    THEN MapInsert(m, text, result.val)
    ELSE m

\* The second lock of query storing nothing.
CacheInsert_never(m, useCache, text, result) == m

\* The second lock of query storing the first row only.
CacheInsert_head(m, useCache, text, result) ==
    IF useCache /\ IsOk(result)
    THEN MapInsert(m, text, SubSeq(result.val, 1, 1))
    ELSE m

\* The second lock of query: the rows are stored under the text when the call
\* asked for the cache and got rows.
CacheInsert(m, useCache, text, result) ==
    IF useCache /\ IsOk(result) THEN MapInsert(m, text, result.val) ELSE m

\* The middleware sending the request again after any failure.
ShouldRetry_any(o, retry) == o.kind # "ok" /\ retry < MAX_RETRIES

\* Whether the middleware sends the request again: the failure is transient
\* and fewer than MAX_RETRIES retries were made.
ShouldRetry(o, retry) == o.kind = "transient" /\ retry < MAX_RETRIES

\* The answer to the attempt caller c waits on.  The middleware retries a
\* transient failure; otherwise the call runs to its end: query parses the
\* body and fills the cache, query_native counts the bytes.  Transient
\* failures meet the attempts of one call of a run.
Transport(c) ==
    /\ call[c].pc = "wait"
    /\ LET id == call[c].id
           this == calls[id]
           format == IF this.op = "query" THEN "TSV" ELSE "Native" IN
       \E o \in Outcomes(format, this.text) :
           /\ o.kind = "transient" => flaky \in {0, id}
           /\ flaky' = IF o.kind = "transient" THEN id ELSE flaky
           /\ IF ShouldRetry(o, call[c].retry)
              THEN /\ net' = Append(Respond(net, id, call[c].retry, o),
                                     Request(id, format, this.text, call[c].retry + 1))
                   /\ call' = [call EXCEPT ![c].retry = @ + 1]
                   /\ UNCHANGED <<cache, calls>>
              ELSE LET sent == SendQueryResult(o)
                       result == IF this.op = "query" THEN QueryRows(sent)
                                 ELSE NativeBytes(sent) IN
                   /\ cache' = CacheInsert(cache, this.cache, this.text, result)
                   /\ calls' = [calls EXCEPT ![id].res = result,
                                             ![id].ended = Cardinality(Returned) + 1]
                   /\ call' = [call EXCEPT ![c].pc = "ret"]
                   /\ net' = Respond(net, id, call[c].retry, o)

\* ------------------------------------------------------ src/grafana.rs

\* Option: None, or Some(x).
None == <<>>

Some(x) == <<x>>

\* Dashboard::variables: the templating list, in order.
variables(d) == d.templating

\* ds.type.contains("clickhouse"), over the datasource types drawn.
ContainsClickhouse(type) == type \in {"grafana-clickhouse-datasource"}

\* Variable::is_clickhouse_ds
is_clickhouse_ds(v) ==
    v.datasource # None /\ ContainsClickhouse(v.datasource[1].type)

\* Panel::sql: the raw_sql of the targets that have one, in order.
RECURSIVE FlatMap(_)
FlatMap(opts) == IF opts = <<>> THEN <<>> ELSE Head(opts) \o FlatMap(Tail(opts))

sql(panel) == FlatMap([k \in 1..Len(panel.targets) |-> panel.targets[k].raw_sql])

\* VariablesConfig::check: a key that names no variable of the dashboard is
\* logged as a warning; the value returned is Ok(()) in every case.
VariablesConfigCheck(cfg, d) == Ok("unit")

\* The lookup of the configuration never finding the variable.
Override_ignored(cfg, var) == None

\* variables_config.0.get(&var.name).cloned()
Override(cfg, var) ==
    IF var.name \in DOMAIN cfg THEN Some(cfg[var.name]) ELSE None

\* The match of get_variants with every variable that is not a Clickhouse
\* one handled by the None arm.
VariantsArm_lenient(v) ==
    IF v.datasource # None /\ is_clickhouse_ds(v) THEN "clickhouse" ELSE "json"

\* The arm of the match of get_variants taken for a variable.
VariantsArm(v) ==
    IF v.datasource # None /\ is_clickhouse_ds(v) THEN "clickhouse"
    ELSE IF v.datasource = None THEN "json"
    ELSE "unsupported"

\* The None arm without the first option.
OptionValues_rest(v) == [k \in 1..(Len(v.options) - 1) |-> v.options[k + 1].value]

\* The None arm: the values of the options, in order.
OptionValues(v) == [k \in 1..Len(v.options) |-> v.options[k].value]

\* The clickhouse arm without its ensure!.
OneColumn_unchecked(rows) == TRUE

\* The ensure! of the clickhouse arm: the first row, if any, has one column
\* at most.
OneColumn(rows) == (IF rows = <<>> THEN 0 ELSE n_cols(rows[1])) <= 1

\* resp.into_iter().flat_map(|c| c.cols): the columns of the rows, row by row.
ColumnValues(rows) == FlatMap([k \in 1..Len(rows) |-> rows[k].cols])

\* The inner loop of variables_combinations keeping the assignment as it is
\* when the variable has no value.
ExtendAll_keep(assignment, name, variants) ==
    IF variants = <<>> THEN <<assignment>>
    ELSE [k \in 1..Len(variants) |-> MapInsert(assignment, name, variants[k])]

\* The inner loop of variables_combinations cloning without the insert.
ExtendAll_unset(assignment, name, variants) ==
    [k \in 1..Len(variants) |-> assignment]

\* The inner loop of variables_combinations with the values in reverse order.
ExtendAll_reversed(assignment, name, variants) ==
    [k \in 1..Len(variants) |->
        MapInsert(assignment, name, variants[Len(variants) + 1 - k])]

\* The inner loop of variables_combinations: one clone of the assignment per
\* value, with the variable set to it.
ExtendAll(assignment, name, variants) ==
    [k \in 1..Len(variants) |-> MapInsert(assignment, name, variants[k])]

\* The run ends with error e.
Fail(e) ==
    /\ pc' = "failed"
    /\ exit' = Err(e)

\* The result of the client call the run waited for.
Returns == call["main"].pc = "ret"

Result == calls[call["main"].id].res

\* variables_config.check(&dashboard)?, ChClient::from_flags and the first
\* lines of variables_combinations: the working list holds one empty
\* assignment.
Check ==
    /\ pc = "start"
    /\ IF IsErr(VariablesConfigCheck(config, dashboard))
       THEN /\ Fail(VariablesConfigCheck(config, dashboard).err)
            /\ UNCHANGED enumVars
       ELSE /\ pc' = "enum"
            /\ combinations' = <<EmptyMap>>
            /\ combinations2' = <<>>
            /\ vi' = 1
            /\ ai' = 1
            /\ UNCHANGED <<exit, resp>>
    /\ UNCHANGED <<dashboard, config, replayVars, clientVars, substVars>>

\* for assignment in &combinations: the candidates of var under assignment,
\* from the configuration if it has the variable, otherwise from
\* get_variants up to its first suspension.
Resolve ==
    /\ pc = "enum"
    /\ vi <= Len(variables(dashboard))
    /\ ai <= Len(combinations)
    /\ LET var == variables(dashboard)[vi]
           assignment == combinations[ai] IN
       IF Override(config, var) # None
       THEN /\ combinations2' =
                   combinations2 \o ExtendAll(assignment, var.name, Override(config, var)[1])
            /\ ai' = ai + 1
            /\ UNCHANGED <<pc, exit, clientVars>>
       ELSE IF VariantsArm(var) = "json"
       THEN /\ combinations2' =
                   combinations2 \o ExtendAll(assignment, var.name, OptionValues(var))
            /\ ai' = ai + 1
            /\ UNCHANGED <<pc, exit, clientVars>>
       ELSE IF VariantsArm(var) = "unsupported"
       THEN /\ Fail([kind |-> "unsupported", variable |-> var])
            /\ UNCHANGED <<combinations2, ai, clientVars>>
       ELSE LET query == substitute_variables(var.query, assignment) IN
            IF IsErr(query)
            THEN /\ Fail(query.err)
                 /\ UNCHANGED <<combinations2, ai, clientVars>>
            ELSE /\ ClientQuery("main", query.val, TRUE,
                                [stage |-> "variable", vi |-> vi, ai |-> ai])
                 /\ pc' = "tsv"
                 /\ UNCHANGED <<combinations2, ai, exit>>
    /\ UNCHANGED <<dashboard, config, combinations, vi, resp, replayVars, substVars>>

\* query_native given the substituted query.
WarmQuery_substituted(var, query) == query

\* The argument of query_native in get_variants: self.query.clone(), the
\* query of the variable as the dashboard has it; query is the substituted
\* text that went to client.query.
WarmQuery(var, query) == var.query

\* get_variants after client.query(query, true): its error ends the run;
\* otherwise the unsubstituted query of the variable is sent with
\* query_native.
AfterQuery ==
    /\ pc = "tsv"
    /\ Returns
    /\ IF IsErr(Result)
       THEN /\ Fail(Result.err)
            /\ UNCHANGED <<resp, clientVars>>
       ELSE /\ resp' = Result.val
            /\ ClientQueryNative("main",
                                 WarmQuery(variables(dashboard)[vi],
                                           calls[call["main"].id].text),
                                 [stage |-> "variable", vi |-> vi, ai |-> ai])
            /\ pc' = "native"
            /\ exit' = exit
    /\ UNCHANGED <<dashboard, config, combinations, combinations2, vi, ai,
                   replayVars, substVars>>

\* get_variants after client.query_native: its error ends the run; then the
\* column count is checked, and the values extend the assignment.
AfterQueryNative ==
    /\ pc = "native"
    /\ Returns
    /\ LET var == variables(dashboard)[vi] IN
       IF IsErr(Result)
       THEN /\ Fail(Result.err)
            /\ UNCHANGED <<combinations2, ai>>
       ELSE IF ~OneColumn(resp)
       THEN /\ Fail([kind |-> "shape"])
            /\ UNCHANGED <<combinations2, ai>>
       ELSE /\ combinations2' =
                   combinations2 \o ExtendAll(combinations[ai], var.name, ColumnValues(resp))
            /\ ai' = ai + 1
            /\ pc' = "enum"
            /\ exit' = exit
    /\ UNCHANGED <<dashboard, config, combinations, vi, resp, replayVars,
                   clientVars, substVars>>

\* combinations = combinations2, and the next variable.
NextVariable ==
    /\ pc = "enum"
    /\ vi <= Len(variables(dashboard))
    /\ ai > Len(combinations)
    /\ combinations' = combinations2
    /\ combinations2' = <<>>
    /\ vi' = vi + 1
    /\ ai' = 1
    /\ UNCHANGED <<dashboard, config, pc, exit, resp, replayVars, clientVars, substVars>>

\* -------------------------------------------------------- src/main.rs

\* The error of query_native returned as it is.
PanelContext_bare(err, text, panel) == err

\* with_context: "Failed to run query [{sql}] in panel {panel}", the panel
\* displayed as "Panel {id} ({title})", around the error of query_native.
PanelContext(err, text, panel) ==
    [kind |-> "context", sql |-> text,
     panel |-> [id |-> panel.id, title |-> panel.title],
     source |-> err]

\* The replay starting on the working list before the last variable is done.
Enumerated_early ==
    /\ pc = "enum"
    /\ vi >= 1 /\ ai > Len(combinations)
    /\ pc' = "replay"
    /\ ci' = 1 /\ pi' = 1 /\ ti' = 1
    /\ bytes' = 0
    /\ UNCHANGED <<dashboard, config, exit, enumVars, clientVars, substVars>>

\* variables_combinations returns Ok(combinations); the replay starts.
Enumerated ==
    /\ pc = "enum"
    /\ vi > Len(variables(dashboard))
    /\ pc' = "replay"
    /\ ci' = 1 /\ pi' = 1 /\ ti' = 1
    /\ bytes' = 0
    /\ UNCHANGED <<dashboard, config, exit, enumVars, clientVars, substVars>>

\* for sql in panel.sql(): the query is substituted and sent with
\* query_native; a substitution error ends the run as it is.
Execute ==
    /\ pc = "replay"
    /\ ci <= Len(combinations)
    /\ pi <= Len(dashboard.panels)
    /\ ti <= Len(sql(dashboard.panels[pi]))
    /\ LET text == substitute_variables(sql(dashboard.panels[pi])[ti], combinations[ci]) IN
       IF IsErr(text)
       THEN /\ Fail(text.err)
            /\ UNCHANGED clientVars
       ELSE /\ ClientQueryNative("main", text.val,
                                 [stage |-> "panel", ci |-> ci, pi |-> pi, ti |-> ti])
            /\ pc' = "exec"
            /\ exit' = exit
    /\ UNCHANGED <<dashboard, config, enumVars, replayVars, substVars>>

\* After client.query_native: its error, with the query and the panel as
\* context, ends the run; otherwise the bytes are added.
AfterExecute ==
    /\ pc = "exec"
    /\ Returns
    /\ IF IsErr(Result)
       THEN /\ Fail(PanelContext(Result.err, calls[call["main"].id].text,
                                  dashboard.panels[pi]))
            /\ UNCHANGED <<ti, bytes>>
       ELSE /\ bytes' = bytes + Result.val
            /\ ti' = ti + 1
            /\ pc' = "replay"
            /\ exit' = exit
    /\ UNCHANGED <<dashboard, config, enumVars, ci, pi, clientVars, substVars>>

\* for panel in &dashboard.panels: the next panel.
NextPanel ==
    /\ pc = "replay"
    /\ ci <= Len(combinations)
    /\ pi <= Len(dashboard.panels)
    /\ ti > Len(sql(dashboard.panels[pi]))
    /\ pi' = pi + 1
    /\ ti' = 1
    /\ UNCHANGED <<dashboard, config, pc, exit, enumVars, ci, bytes, clientVars, substVars>>

\* for combination in combinations: the next combination.
NextCombination ==
    /\ pc = "replay"
    /\ ci <= Len(combinations)
    /\ pi > Len(dashboard.panels)
    /\ ci' = ci + 1
    /\ pi' = 1 /\ ti' = 1
    /\ bytes' = 0
    /\ UNCHANGED <<dashboard, config, pc, exit, enumVars, clientVars, substVars>>

\* main_impl returns Ok(()).
Done ==
    /\ pc = "replay"
    /\ ci > Len(combinations)
    /\ pc' = "done"
    /\ exit' = Ok("unit")
    /\ UNCHANGED <<dashboard, config, enumVars, replayVars, clientVars, substVars>>

\* The network answers the request the run waits on.
Network ==
    /\ Transport("main")
    /\ UNCHANGED <<mainVars, substVars>>

\* ------------------------------------------------------ the dashboards

\* Most variables of a drawn dashboard.
MaxVars == 2

NoDashboard == [title |-> "", templating |-> <<>>, panels |-> <<>>]

ClickhouseDs == Some([type |-> "grafana-clickhouse-datasource"])

OtherDs == Some([type |-> "prometheus"])

Variable(name, query, options, datasource) ==
    [name |-> name, query |-> query,
     options |-> [k \in 1..Len(options) |-> [value |-> options[k]]],
     datasource |-> datasource]

VariablePool ==
    { Variable(<<"A">>, <<>>, << <<"x">>, <<"y">> >>, None),
      Variable(<<"C">>, <<>>, << <<"z">> >>, None),
      Variable(<<"B">>, <<>>, <<>>, None),
      Variable(<<"B">>, <<"q", "$", "{", "A", "}">>, <<>>, ClickhouseDs),
      Variable(<<"B">>, <<"q">>, <<>>, ClickhouseDs),
      Variable(<<"C">>, <<"r">>, <<>>, OtherDs) }

VariableLists == Concats({<<v>> : v \in VariablePool}, MaxVars)

Panel(id, title, targets) ==
    [id |-> id, title |-> title, type |-> "timeseries",
     targets |-> [k \in 1..Len(targets) |-> [raw_sql |-> targets[k]]]]

PanelLists ==
    { <<>>,
      << Panel(1, "one", << Some(<<"p", "$", "{", "A", "}">>), None,
                            Some(<<"s", "$", "{", "B", "}">>) >>) >>,
      << Panel(2, "two", <<>>),
         Panel(3, "", << Some(<<"t">>) >>),
         Panel(4, "four", << Some(<<"$", "{", "C", "}">>) >>) >> }

Dashboards ==
    {[title |-> "d", templating |-> vs, panels |-> ps] :
        vs \in VariableLists, ps \in PanelLists}

\* The configurations drawn: none, values for A, one value twice for A, values
\* for B and C, no value for C, values for a name that no drawn dashboard has.
Configs ==
    { EmptyMap,
      (<<"A">> :> << <<"z">> >>),
      (<<"A">> :> << <<"x">>, <<"x">> >>),
      (<<"B">> :> << <<"u">>, <<"v">> >>) @@ (<<"C">> :> << <<"w">> >>),
      (<<"C">> :> <<>>),
      (<<"Z">> :> << <<"z">> >>) }

SubstIdle == tpl = <<>> /\ asg = EmptyMap /\ res = NoResult

MainIdle ==
    /\ dashboard = NoDashboard
    /\ config = EmptyMap
    /\ pc = "idle"
    /\ combinations = <<>>
    /\ combinations2 = <<>>
    /\ vi = 0 /\ ai = 0
    /\ resp = <<>>
    /\ ci = 0 /\ pi = 0 /\ ti = 0
    /\ bytes = 0
    /\ exit = NoResult

Init ==
    /\ dashboard \in Dashboards
    /\ config \in Configs
    /\ pc = "start"
    /\ combinations = <<>>
    /\ combinations2 = <<>>
    /\ vi = 0 /\ ai = 0
    /\ resp = <<>>
    /\ ci = 0 /\ pi = 0 /\ ti = 0
    /\ bytes = 0
    /\ exit = NoResult
    /\ ClientIdle({"main"})
    /\ SubstIdle

Next ==
    \/ Check
    \/ Resolve
    \/ AfterQuery
    \/ AfterQueryNative
    \/ NextVariable
    \/ Enumerated
    \/ Execute
    \/ AfterExecute
    \/ NextPanel
    \/ NextCombination
    \/ Done
    \/ Network

Spec == Init /\ [][Next]_vars

\* ------------------------------------------------- the client, on its own

\* Calls made in one run of the client on its own.
MaxCalls == 2

Callers == {"c1", "c2"}

Texts == {<<"q">>, <<"r">>}

Direct == [stage |-> "direct"]

ClientInit ==
    /\ ClientIdle(Callers)
    /\ SubstIdle
    /\ MainIdle

\* The callers are clones of one client and alike: the first call of a run
\* is made by the first of them.
MayCall(c) ==
    /\ call[c].pc # "wait"
    /\ Len(calls) < MaxCalls
    /\ calls = <<>> => c = "c1"

CallQuery(c) ==
    /\ MayCall(c)
    /\ \E text \in Texts, useCache \in BOOLEAN : ClientQuery(c, text, useCache, Direct)
    /\ UNCHANGED <<substVars, mainVars>>

CallQueryNative(c) ==
    /\ MayCall(c)
    /\ \E text \in Texts : ClientQueryNative(c, text, Direct)
    /\ UNCHANGED <<substVars, mainVars>>

Answer(c) ==
    /\ Transport(c)
    /\ UNCHANGED <<substVars, mainVars>>

ClientNext ==
    \E c \in Callers : CallQuery(c) \/ CallQueryNative(c) \/ Answer(c)

ClientSpec == ClientInit /\ [][ClientNext]_vars

\* The requests call id put on the wire, retries included, and the
\* send_query calls among them (the first attempts).
RequestsOf(id) == {k \in 1..Len(net) : net[k].call = id}

SendQueriesOf(id) == {k \in RequestsOf(id) : net[k].retry = 0}

\* Call j began after call i had returned, and both are query(text, true) of
\* one text.
SuccessiveCached(i, j) ==
    /\ i \in 1..Len(calls) /\ j \in 1..Len(calls)
    /\ calls[i].ended # 0 /\ calls[i].ended <= calls[j].began
    /\ calls[i].op = "query" /\ calls[j].op = "query"
    /\ calls[i].cache /\ calls[j].cache
    /\ calls[i].text = calls[j].text

\* C1 as stated: two successive calls of query(text, cache=true) put at most
\* one request on the wire in total.
C1_AtMostOneRequest ==
    \A i, j \in 1..Len(calls) :
        SuccessiveCached(i, j) =>
            Cardinality(RequestsOf(i) \cup RequestsOf(j)) <= 1

\* C1 amended: when the first of two successive calls of
\* query(text, cache=true) returns rows, the second is answered from the cache
\* with no request on the wire, and the two make at most one send_query call.
C1_SecondServedFromCache ==
    \A i, j \in 1..Len(calls) :
        (SuccessiveCached(i, j) /\ IsOk(calls[i].res)) =>
            /\ RequestsOf(j) = {}
            /\ IsOk(calls[j].res)
            /\ Cardinality(SendQueriesOf(i) \cup SendQueriesOf(j)) <= 1

\* C1 witness: a first call that got its rows from the server, then a second
\* call of the same text that returned rows.
C1_Witness ==
    \E i, j \in 1..Len(calls) :
        /\ SuccessiveCached(i, j)
        /\ IsOk(calls[i].res) /\ RequestsOf(i) # {}
        /\ IsOk(calls[j].res)

\* The attempt of call id that was answered last.
LastAttempt(id) ==
    CHOOSE k \in RequestsOf(id) : \A k2 \in RequestsOf(id) : net[k2].retry <= net[k].retry

\* Call i of query got its rows from the server.
FreshRows(i) ==
    calls[i].op = "query" /\ IsOk(calls[i].res) /\ RequestsOf(i) # {}

\* Call j of query(text, true) returned without a request.
CacheHit(j) ==
    /\ calls[j].op = "query" /\ calls[j].cache
    /\ calls[j].res # NoResult /\ RequestsOf(j) = {}

\* Call i is a query(text, true) of the text of call j that got rows from the
\* server and returned before j began.
FilledBefore(i, j) ==
    /\ FreshRows(i) /\ calls[i].cache
    /\ calls[i].text = calls[j].text
    /\ calls[i].ended # 0 /\ calls[i].ended <= calls[j].began

\* Call i is the last call that stored rows for the text of j before j began.
FilledLast(i, j) ==
    /\ FilledBefore(i, j)
    /\ \A i2 \in 1..Len(calls) : FilledBefore(i2, j) => calls[i2].ended <= calls[i].ended

\* The lines of a response body, counted on the body: one per line feed,
\* and one more for text after the last line feed.
CountLines(body) ==
    Cardinality({k \in 1..Len(body) : body[k] = "\n"})
        + (IF body # <<>> /\ body[Len(body)] # "\n" THEN 1 ELSE 0)

RECURSIVE JoinWith(_, _)
JoinWith(pieces, sep) ==
    IF pieces = <<>> THEN <<>>
    ELSE IF Len(pieces) = 1 THEN pieces[1]
    ELSE pieces[1] \o sep \o JoinWith(Tail(pieces), sep)

\* The rows written back as text: columns joined by tabs, rows by line feeds.
RowsText(rows) ==
    JoinWith([k \in 1..Len(rows) |-> JoinWith(rows[k].cols, <<"\t">>)], <<"\n">>)

\* rows are the rows of body: one row per line, in order, the columns of a
\* row being the pieces of its line between tabs.
RowsOfBody(rows, body) ==
    /\ Len(rows) = CountLines(body)
    /\ \A k \in 1..Len(rows) : \A c \in 1..Len(rows[k].cols) :
           \A x \in 1..Len(rows[k].cols[c]) : rows[k].cols[c][x] \notin {"\t", "\n"}
    /\ body \in {RowsText(rows), RowsText(rows) \o <<"\n">>}

\* The rows of every fresh call are those of its response, and every hit returns the rows last stored.
HitReturnsFreshParse ==
    /\ \A i \in 1..Len(calls) :
           FreshRows(i) =>
               /\ net[LastAttempt(i)].got.kind = "ok"
               /\ RowsOfBody(calls[i].res.val, net[LastAttempt(i)].got.body)
    /\ \A j \in 1..Len(calls) :
           CacheHit(j) =>
               /\ IsOk(calls[j].res)
               /\ \E i \in 1..Len(calls) : FilledLast(i, j)
               /\ \A i \in 1..Len(calls) : FilledLast(i, j) => calls[j].res = calls[i].res

\* C11: a call of query that got its rows from the server, with or without
\* the cache, returns the rows of the response body (one row per line, the
\* columns split on tab, in order); a cache hit returns exactly the rows that
\* the last query(text, true) of the same text to finish before it returned.
C11_HitReturnsFreshParse == []HitReturnsFreshParse

\* C11 witness: a cache hit that returned rows of more than one column, or
\* more than one row, parsed by an earlier call.
C11_Witness ==
    \E i, j \in 1..Len(calls) :
        /\ CacheHit(j) /\ FilledLast(i, j)
        /\ calls[j].res = calls[i].res
        /\ calls[j].text = <<"r">>
        /\ Len(calls[j].res.val[1].cols) = 2

\* Calls i and j are query(text, true) of one text, and j began while i, begun
\* before it, had not returned.
ConcurrentCached(i, j) ==
    /\ i < j
    /\ calls[i].op = "query" /\ calls[j].op = "query"
    /\ calls[i].cache /\ calls[j].cache
    /\ calls[i].text = calls[j].text
    /\ (calls[i].ended = 0 \/ calls[i].ended > calls[j].began)

\* C12 as stated: of two concurrent callers of query(text, true) with one
\* text, at most one puts a request for the text on the wire.
C12_NeverBothSend ==
    \A i, j \in 1..Len(calls) :
        ConcurrentCached(i, j) => (RequestsOf(i) = {} \/ RequestsOf(j) = {})

\* C12 amended: the lock covers the lookup and, apart from it, the insert: a
\* query(text, true) sends a request exactly when no query(text, true) of
\* its text had stored rows before it began, and then calls send_query once;
\* a caller that begins while another waits for the response sends too.
C12_SendsUnlessFilledBefore ==
    \A j \in 1..Len(calls) :
        (calls[j].op = "query" /\ calls[j].cache) =>
            /\ (RequestsOf(j) = {}) <=> (\E i \in 1..Len(calls) : FilledBefore(i, j))
            /\ Cardinality(SendQueriesOf(j)) <= 1

\* C12 witness: two concurrent callers of one text that both sent a request
\* and both returned rows.
C12_Witness ==
    \E i, j \in 1..Len(calls) :
        /\ ConcurrentCached(i, j)
        /\ RequestsOf(i) # {} /\ RequestsOf(j) # {}
        /\ IsOk(calls[i].res) /\ IsOk(calls[j].res)

\* Call id is a query_native, or a query with cache = false.
Uncached(id) == calls[id].op = "query_native" \/ ~calls[id].cache

\* C13: a call of query_native(text) or query(text, false) puts a request on
\* the wire as it starts, also when the cache holds the text, and no step of
\* such a call, its start, a resend or its return with rows or with an
\* error, changes the cache.
C13_UncachedLeavesCache ==
    /\ [](\A id \in 1..Len(calls) : Uncached(id) => SendQueriesOf(id) # {})
    /\ [][\A c \in DOMAIN call :
            (call'[c] # call[c]
                /\ (calls'[call'[c].id].op = "query_native" \/ ~calls'[call'[c].id].cache))
            => cache' = cache]_vars

\* C13 witness: a query_native or a query(text, false) of a text the cache
\* holds sent a request and returned, the cache still holding what it held.
C13_Witness ==
    \E i, j \in 1..Len(calls) :
        /\ calls[i].op = "query" /\ calls[i].cache /\ FreshRows(i)
        /\ j > i /\ Uncached(j) /\ calls[j].text = calls[i].text
        /\ calls[j].began >= calls[i].ended
        /\ calls[j].res # NoResult
        /\ RequestsOf(j) # {}
        /\ cache = (calls[i].text :> calls[i].res.val)

\* The attempts of call id made after attempt k.
LaterAttempts(k) ==
    {k2 \in RequestsOf(net[k].call) : net[k2].retry > net[k].retry}

\* C14 as stated: one call puts its request on the wire three times at most.
C14_AtMostThreeAttempts ==
    \A id \in 1..Len(calls) : Cardinality(RequestsOf(id)) <= 3

\* The attempts on the wire follow the retry policy.
RetriesOnlyTransient ==
    /\ \A id \in 1..Len(calls) : Cardinality(RequestsOf(id)) <= MAX_RETRIES + 1
    /\ \A k \in 1..Len(net) :
           net[k].retry > 0 =>
               \E k0 \in 1..(k - 1) :
                   /\ net[k0].call = net[k].call
                   /\ net[k0].retry = net[k].retry - 1
                   /\ net[k0].got = [kind |-> "transient"]
    /\ \A k \in 1..Len(net) :
           LET id == net[k].call IN
           /\ net[k].got = [kind |-> "fatal"] =>
                  /\ LaterAttempts(k) = {}
                  /\ calls[id].res = Err([kind |-> "transport", why |-> "fatal"])
           /\ (net[k].got # NoResult /\ net[k].got.kind = "ok") =>
                  /\ LaterAttempts(k) = {}
                  /\ calls[id].res # NoResult
                  /\ (calls[id].op = "query"
                        /\ ~ConsistentColumns(ParseRows(net[k].got.body)))
                      => calls[id].res = Err([kind |-> "columns"])
           /\ (net[k].got = [kind |-> "transient"] /\ net[k].retry = MAX_RETRIES) =>
                  /\ LaterAttempts(k) = {}
                  /\ calls[id].res = Err([kind |-> "transport", why |-> "transient"])
           /\ (net[k].got = [kind |-> "transient"] /\ net[k].retry < MAX_RETRIES) =>
                  LaterAttempts(k) # {}

\* C14 amended: one call puts its request on the wire MAX_RETRIES + 1 times
\* at most, the first attempt and MAX_RETRIES resends; every resend follows
\* a transient failure of the attempt before it; after a failure that is not
\* transient, a response whose rows fail the column check, or a success, no
\* attempt follows and the call has returned with that outcome; after a
\* transient failure of the last resend the call has returned that failure.
C14_RetriesOnlyTransient == []RetriesOnlyTransient

\* C14 witness: a call whose request went on the wire a fourth time, after
\* three transient failures, and then returned rows.
C14_Witness ==
    \E id \in 1..Len(calls) :
        /\ Cardinality(RequestsOf(id)) = MAX_RETRIES + 1
        /\ IsOk(calls[id].res)

\* The rows all have as many columns.
Uniform(rows) == \A a, b \in 1..Len(rows) : Len(rows[a].cols) = Len(rows[b].cols)

\* Caller c returns from its call in this step.
Returning(c) == call[c].pc = "wait" /\ call'[c].pc = "ret"

\* C17: the cache changes only in the step in which a query(text, true)
\* returns rows received from the server, all of one column count, and then
\* by the entry (text, rows); a call that returns an error (transport, status
\* or unequal column counts) leaves the cache as it was, so that the next
\* query(text, true), no other call having stored the text, sends a request.
C17_InsertOnlyOnSuccess ==
    /\ [][cache' # cache =>
            \E c \in DOMAIN call :
                /\ Returning(c)
                /\ calls[call[c].id].op = "query" /\ calls[call[c].id].cache
                /\ IsOk(calls'[call[c].id].res)
                /\ Uniform(calls'[call[c].id].res.val)
                /\ \E r \in 1..Len(net) :
                       /\ net[r].call = call[c].id
                       /\ net'[r].got # NoResult /\ net'[r].got.kind = "ok"
                /\ cache' = MapInsert(cache, calls[call[c].id].text,
                                      calls'[call[c].id].res.val)]_vars
    /\ [][\A c \in DOMAIN call :
            (Returning(c) /\ IsErr(calls'[call[c].id].res)) => cache' = cache]_vars
    /\ [](\A i, j \in 1..Len(calls) :
            (/\ SuccessiveCached(i, j) /\ IsErr(calls[i].res)
             /\ ~\E i2 \in 1..Len(calls) : FilledBefore(i2, j))
            => RequestsOf(j) # {})

\* C17 witness: a query(text, true) failed on rows of unequal column counts,
\* the cache stayed empty, and the next query(text, true) sent a request and
\* stored its rows.
C17_Witness ==
    \E i, j \in 1..Len(calls) :
        /\ SuccessiveCached(i, j)
        /\ calls[i].res = Err([kind |-> "columns"])
        /\ RequestsOf(j) # {}
        /\ IsOk(calls[j].res)
        /\ DOMAIN cache = {calls[j].text}

\* C18 as stated: once a text has an entry, no step removes the entry or
\* changes its rows.
C18_NeverReplaced ==
    [][\A t \in DOMAIN cache : t \in DOMAIN cache' /\ cache'[t] = cache[t]]_vars

\* C18 amended: no step removes an entry; the rows of an entry change only
\* in the step in which a query(text, true) of that text returns rows, the
\* call having sent its request because it began before the entry was
\* stored, and the entry then holds the rows of that call (the last writer).
C18_NeverRemoved ==
    /\ [][\A t \in DOMAIN cache : t \in DOMAIN cache']_vars
    /\ [][\A t \in DOMAIN cache :
            (t \in DOMAIN cache' /\ cache'[t] # cache[t]) =>
                \E c \in DOMAIN call :
                    /\ Returning(c)
                    /\ calls[call[c].id].op = "query" /\ calls[call[c].id].cache
                    /\ calls[call[c].id].text = t
                    /\ RequestsOf(call[c].id) # {}
                    /\ \E i \in 1..Len(calls) :
                           /\ ConcurrentCached(i, call[c].id) \/ ConcurrentCached(call[c].id, i)
                           /\ calls[i].res = Ok(cache[t])
                    /\ calls'[call[c].id].res = Ok(cache'[t])]_vars

\* C18 witness: two concurrent callers of one text got different rows, and
\* the entry holds the rows of the one that returned last, not those the
\* first stored.
C18_Witness ==
    \E i, j \in 1..Len(calls) :
        /\ ConcurrentCached(i, j) \/ ConcurrentCached(j, i)
        /\ IsOk(calls[i].res) /\ IsOk(calls[j].res)
        /\ calls[i].res # calls[j].res
        /\ calls[i].ended < calls[j].ended
        /\ cache[calls[j].text] = calls[j].res.val

\* ------------------------------------------- substitute_variables, alone

\* Most pieces a drawn template is made of.
MaxPieces == 5

\* The pieces: the opening delimiter, the closing one, name characters, a
\* line feed and a lone dollar sign.
TplPieces == {<<"$", "{">>, <<"}">>, <<"A">>, <<"B">>, <<"\n">>, <<"$">>}

Templates == Concats(TplPieces, MaxPieces)

\* Assignments drawn: keys among A, B and the empty name; a value may itself
\* hold a token or the text inserted for a missing variable.
SubstAssignments ==
    { EmptyMap,
      (<<"A">> :> <<"x">>),
      (<<"A">> :> <<"$", "{", "B", "}">>) @@ (<<"B">> :> <<>>),
      (<<>> :> <<"z">>) @@ (<<"B">> :> ERROR) }

SubstInit ==
    /\ tpl \in Templates
    /\ asg \in SubstAssignments
    /\ res = NoResult
    /\ ClientIdle({})
    /\ MainIdle

SubstCall ==
    /\ res = NoResult
    /\ res' = substitute_variables(tpl, asg)
    /\ UNCHANGED <<tpl, asg>>
    /\ UNCHANGED <<clientVars, mainVars>>

SubstNext == SubstCall

SubstSpec == SubstInit /\ [][SubstNext]_vars

\* The ${identifier} tokens of a template, stated apart from the scan: a
\* token is a pair <<a, b>> with "$" "{" at a, "}" at b and neither "}" nor a
\* line feed in between; the tokens of the template are picked leftmost
\* first, each one starting after the end of the one before.
TokenAt(s, a, b) ==
    /\ a + 2 <= b /\ b <= Len(s)
    /\ s[a] = "$" /\ s[a + 1] = "{" /\ s[b] = "}"
    /\ \A k \in (a + 2)..(b - 1) : s[k] \notin {"}", "\n"}

TokensFrom(s, from) ==
    {t \in (from..Len(s)) \X (from..Len(s)) : TokenAt(s, t[1], t[2])}

RECURSIVE TokenList(_, _)
TokenList(s, from) ==
    LET T == TokensFrom(s, from) IN
    IF T = {} THEN <<>>
    ELSE LET t == CHOOSE t \in T : \A u \in T : t[1] <= u[1] IN
         <<t>> \o TokenList(s, t[2] + 1)

TokenName(s, t) == SubSeq(s, t[1] + 2, t[2] - 1)

\* The names of the tokens that are no key of the assignment, in order.
RECURSIVE MissingNames(_, _, _)
MissingNames(s, a, toks) ==
    IF toks = <<>> THEN <<>>
    ELSE (IF TokenName(s, Head(toks)) \in DOMAIN a THEN <<>>
          ELSE <<TokenName(s, Head(toks))>>) \o MissingNames(s, a, Tail(toks))

\* The template with each token replaced by the value of its name.
RECURSIVE Substituted(_, _, _, _)
Substituted(s, a, from, toks) ==
    IF toks = <<>> THEN SubSeq(s, from, Len(s))
    ELSE SubSeq(s, from, Head(toks)[1] - 1) \o a[TokenName(s, Head(toks))]
         \o Substituted(s, a, Head(toks)[2] + 1, Tail(toks))

\* C10: substitute_variables returns the substituted string exactly when every
\* ${identifier} token of the template names a key of the assignment;
\* otherwise it returns one error that lists every missing identifier, in
\* order, and no string at all.
C10_SubstituteAllOrNothing ==
    res # NoResult =>
        LET toks == TokenList(tpl, 1)
            missing == MissingNames(tpl, asg, toks) IN
        /\ IsOk(res) <=> missing = <<>>
        /\ IsOk(res) => res.val = Substituted(tpl, asg, 1, toks)
        /\ ~IsOk(res) =>
              /\ IsErr(res)
              /\ DOMAIN res = {"kind", "err"}
              /\ res.err = [kind |-> "subst", names |-> missing]

\* C10 witness: a template of two tokens whose names differ and are both
\* missing from the assignment; the error returned lists the two.
C10_Witness ==
    /\ IsErr(res)
    /\ Len(TokenList(tpl, 1)) = 2
    /\ Len(res.err.names) = 2
    /\ res.err.names[1] # res.err.names[2]

\* ------------------------------------------- the run: what the claims use

\* variables_combinations has returned Ok(combinations).
EnumerationReturned == pc \in {"replay", "exec", "done"} \/ (pc = "failed" /\ ci > 0)

\* variables_combinations has returned an error.
EnumerationFailed == pc = "failed" /\ ci = 0

\* The calls made to resolve variables, and those made to replay panels.
VariableCalls == {k \in 1..Len(calls) : calls[k].for.stage = "variable"}

PanelCalls == {k \in 1..Len(calls) : calls[k].for.stage = "panel"}

Names(d) == {variables(d)[k].name : k \in 1..Len(variables(d))}

DistinctNames(d) == Cardinality(Names(d)) = Len(variables(d))

\* The candidates a variable yields under a prefix assignment: the values
\* configured for it; else its options; else the single column of the rows
\* its substituted query returned, which the cache holds.
CandidatesUnder(var, prefix) ==
    IF var.name \in DOMAIN config THEN config[var.name]
    ELSE IF var.datasource = None THEN [k \in 1..Len(var.options) |-> var.options[k].value]
    ELSE LET rows == cache[substitute_variables(var.query, prefix).val] IN
         [k \in 1..Len(rows) |-> rows[k].cols[1]]

\* The extensions of the first n prefixes of a list by the candidates of a
\* variable, prefix by prefix and candidate by candidate.
RECURSIVE Extensions(_, _, _)
Extensions(var, prefixes, n) ==
    IF n = 0 THEN <<>>
    ELSE LET candidates == CandidatesUnder(var, prefixes[n]) IN
         Extensions(var, prefixes, n - 1) \o
         [k \in 1..Len(candidates) |->
             [x \in DOMAIN prefixes[n] \cup {var.name} |->
                 IF x = var.name THEN candidates[k] ELSE prefixes[n][x]]]

\* The realized paths through the first i variables, in order.
RECURSIVE Paths(_)
Paths(i) ==
    IF i = 0 THEN <<EmptyMap>>
    ELSE LET prefixes == Paths(i - 1) IN
         Extensions(variables(dashboard)[i], prefixes, Len(prefixes))

\* The dashboard of the scenario: A = [x, y] static, B from the database with
\* a query that refers to A; the database returned {u} under A = x and
\* {v, w} under A = y.
ScenarioVariables ==
    << Variable(<<"A">>, <<>>, << <<"x">>, <<"y">> >>, None),
       Variable(<<"B">>, <<"q", "$", "{", "A", "}">>, <<>>, ClickhouseDs) >>

ScenarioReturned ==
    /\ variables(dashboard) = ScenarioVariables
    /\ config = EmptyMap
    /\ EnumerationReturned
    /\ cache[<<"q", "x">>] = << [cols |-> << <<"u">> >>] >>
    /\ cache[<<"q", "y">>] = << [cols |-> << <<"v">> >>], [cols |-> << <<"w">> >>] >>

\* C2: variables_combinations returns exactly one assignment per realized
\* path, in the order of the working list and of the candidates; in the
\* scenario it returns [{A:x,B:u}, {A:y,B:v}, {A:y,B:w}].
C2_OneAssignmentPerPath ==
    /\ EnumerationReturned => combinations = Paths(Len(variables(dashboard)))
    /\ ScenarioReturned =>
          combinations =
              << (<<"A">> :> <<"x">>) @@ (<<"B">> :> <<"u">>),
                 (<<"A">> :> <<"y">>) @@ (<<"B">> :> <<"v">>),
                 (<<"A">> :> <<"y">>) @@ (<<"B">> :> <<"w">>) >>

\* C2 witness: the scenario, enumerated.
C2_Witness == ScenarioReturned /\ Len(combinations) = 3

\* Every variable is static and none has configured values.
StaticOnly ==
    /\ \A k \in 1..Len(variables(dashboard)) : variables(dashboard)[k].datasource = None
    /\ DistinctNames(dashboard)
    /\ DOMAIN config \cap Names(dashboard) = {}

RECURSIVE OptionsProduct(_)
OptionsProduct(i) ==
    IF i = 0 THEN 1
    ELSE OptionsProduct(i - 1) * Len(variables(dashboard)[i].options)

\* C3: for a dashboard of V static variables of distinct names and no
\* configured values, variables_combinations returns k_1 * ... * k_V
\* assignments of V entries each and sends no request; with no variable it
\* returns one empty assignment.
C3_StaticProduct ==
    StaticOnly =>
        /\ ~EnumerationFailed
        /\ VariableCalls = {}
        /\ EnumerationReturned =>
              /\ Len(combinations) = OptionsProduct(Len(variables(dashboard)))
              /\ \A k \in 1..Len(combinations) :
                    Cardinality(DOMAIN combinations[k]) = Len(variables(dashboard))
              /\ variables(dashboard) = <<>> => combinations = <<EmptyMap>>

\* C3 witness: two static variables, of two options and of one, enumerated.
C3_Witness ==
    /\ StaticOnly
    /\ EnumerationReturned
    /\ Len(variables(dashboard)) = 2
    /\ Len(combinations) = 2

\* C4: a variable with configured values is resolved without any request,
\* neither TSV nor Native, and every prefix is extended by exactly the
\* configured values, in order, whatever the kind of the variable.
C4_OverrideShortCircuits ==
    /\ \A k \in VariableCalls :
          variables(dashboard)[calls[k].for.vi].name \notin DOMAIN config
    /\ (pc = "enum" /\ vi >= 1 /\ vi <= Len(variables(dashboard))
        /\ variables(dashboard)[vi].name \in DOMAIN config) =>
          combinations2 =
              FlatMap([k \in 1..(ai - 1) |->
                  [c \in 1..Len(config[variables(dashboard)[vi].name]) |->
                      [x \in DOMAIN combinations[k] \cup {variables(dashboard)[vi].name} |->
                          IF x = variables(dashboard)[vi].name
                          THEN config[variables(dashboard)[vi].name][c]
                          ELSE combinations[k][x]]]])

\* C4 witness: a database-backed variable with two configured values,
\* resolved for two prefixes.
C4_Witness ==
    /\ pc = "enum" /\ vi = 2 /\ ai = 3
    /\ variables(dashboard)[vi].datasource = ClickhouseDs
    /\ variables(dashboard)[vi].name \in DOMAIN config
    /\ Len(combinations2) = 4
    /\ net = <<>>

\* C5: with a configured name that no variable of the dashboard has, the run
\* fails with a configuration error before the enumeration begins: no
\* request is sent and no assignment is produced.
C5_UnknownNameFails ==
    (DOMAIN config \ Names(dashboard) # {} /\ pc # "start") =>
        /\ pc = "failed"
        /\ exit.err.kind = "config"
        /\ calls = <<>>
        /\ combinations = <<>>

Unsupported(var) == var.datasource # None /\ var.datasource # ClickhouseDs

\* C6 as stated: a dashboard with a variable of an unrecognized datasource
\* never gets a list of assignments, and an enumeration that fails at that
\* variable fails with an error that names it.
C6_AnyUnsupportedAborts ==
    \A k \in 1..Len(variables(dashboard)) :
        Unsupported(variables(dashboard)[k]) =>
            /\ ~EnumerationReturned
            /\ (EnumerationFailed /\ vi = k) =>
                  exit = Err([kind |-> "unsupported", variable |-> variables(dashboard)[k]])

\* The enumeration is about to resolve a variable of an unrecognized
\* datasource: the variable has no configured values and the working list
\* has a prefix for it.
AtUnsupported ==
    /\ pc = "enum" /\ vi >= 1 /\ vi <= Len(variables(dashboard))
    /\ ai <= Len(combinations)
    /\ Unsupported(variables(dashboard)[vi])
    /\ variables(dashboard)[vi].name \notin DOMAIN config

\* C6 amended: when the enumeration resolves a variable of an unrecognized
\* datasource (no values configured for it, a prefix in the working list), it
\* ends there with an error that names the variable; no list is returned and
\* no request is sent.
C6_ResolvedUnsupportedAborts ==
    [][AtUnsupported =>
          /\ pc' = "failed"
          /\ exit' = Err([kind |-> "unsupported", variable |-> variables(dashboard)[vi]])
          /\ ci' = 0
          /\ net' = net]_vars

\* C6 witness: the enumeration failed on the second variable, of an
\* unrecognized datasource.
C6_Witness ==
    /\ EnumerationFailed
    /\ exit.err.kind = "unsupported"
    /\ vi = 2
    /\ exit.err.variable = variables(dashboard)[vi]

MultiColumn(rows) == rows # <<>> /\ Len(rows[1].cols) > 1

\* The candidates of the variable being resolved are, for each prefix done,
\* the first column of the rows of its query, one per row, in order.
CandidatesFromColumn ==
    (pc = "enum" /\ vi >= 1 /\ vi <= Len(variables(dashboard))
     /\ variables(dashboard)[vi].datasource = ClickhouseDs
     /\ variables(dashboard)[vi].name \notin DOMAIN config) =>
        /\ combinations2 = Extensions(variables(dashboard)[vi], combinations, ai - 1)
        /\ \A k \in 1..(ai - 1) :
              \A r \in 1..Len(cache[substitute_variables(variables(dashboard)[vi].query,
                                                        combinations[k]).val]) :
                  Len(cache[substitute_variables(variables(dashboard)[vi].query,
                                                 combinations[k]).val][r].cols) = 1

\* C7 as stated: when the rows of the query of a variable have more than one
\* column, get_variants fails with a shape fault.
C7_MultiColumnIsShapeFault ==
    /\ MultiColumn(resp) => pc \in {"native", "failed"}
    /\ (MultiColumn(resp) /\ pc = "failed") => exit = Err([kind |-> "shape"])
    /\ CandidatesFromColumn

\* C7 amended: when the rows have more than one column, get_variants fails and
\* extends no assignment: with a shape fault once the Native request sent
\* before the check has succeeded, with the error of that request otherwise.
\* When get_variants succeeds, the candidates are the single column of the
\* rows, one per row, in order.
C7_MultiColumnFails ==
    /\ MultiColumn(resp) => pc \in {"native", "failed"}
    /\ (MultiColumn(resp) /\ pc = "failed") =>
          /\ EnumerationFailed
          /\ calls[Len(calls)].op = "query_native"
          /\ calls[Len(calls)].for = [stage |-> "variable", vi |-> vi, ai |-> ai]
          /\ exit = IF IsErr(calls[Len(calls)].res)
                    THEN Err(calls[Len(calls)].res.err)
                    ELSE Err([kind |-> "shape"])
    /\ CandidatesFromColumn

\* C7 witness: rows of two columns, and the shape fault.
C7_Witness ==
    /\ MultiColumn(resp)
    /\ pc = "failed"
    /\ exit = Err([kind |-> "shape"])

\* The names of the tokens of a template that are no key of an assignment.
MissingIn(template, assignment) ==
    LET names == MissingNames(template, assignment, TokenList(template, 1)) IN
    {names[k] : k \in 1..Len(names)}

\* The replay is about to run a panel query that refers to a variable the
\* combination has no value for.
AtMissingReference ==
    /\ pc = "replay"
    /\ ci <= Len(combinations)
    /\ pi <= Len(dashboard.panels)
    /\ ti <= Len(sql(dashboard.panels[pi]))
    /\ MissingIn(sql(dashboard.panels[pi])[ti], combinations[ci]) # {}

\* C8: when the replay runs a panel query that refers to ${C} and the
\* combination has no key C, the run fails with a substitution fault that
\* names C, and no request is sent for that query under that combination.
C8_MissingReferenceFails ==
    /\ [][AtMissingReference =>
            /\ pc' = "failed"
            /\ IsErr(exit') /\ exit'.err.kind = "subst"
            /\ MissingIn(sql(dashboard.panels[pi])[ti], combinations[ci])
                   = {exit'.err.names[k] : k \in 1..Len(exit'.err.names)}
            /\ net' = net
            /\ calls' = calls]_vars
    /\ [](\A k \in PanelCalls :
            MissingIn(sql(dashboard.panels[calls[k].for.pi])[calls[k].for.ti],
                      combinations[calls[k].for.ci]) = {})

\* C8 witness: the replay failed on a query that refers to C, which the
\* combination has no key for, after a query of an earlier panel was sent.
C8_Witness ==
    /\ pc = "failed" /\ ci > 0
    /\ exit.err.kind = "subst"
    /\ exit.err.names = << <<"C">> >>
    /\ PanelCalls # {}

\* The query of the run that failed during the replay.
ReplayFailed == pc = "failed" /\ ci > 0 /\ exit.err.kind = "context"

\* C9: the first panel query that fails ends the run: the error carries the
\* id and the title of its panel, no request follows it, no panel query is
\* sent twice, and the run does nothing more.
C9_FirstFailureAborts ==
    /\ [][(pc = "exec" /\ Returns /\ IsErr(Result)) =>
            /\ pc' = "failed"
            /\ exit' = Err([kind |-> "context",
                            sql |-> calls[Len(calls)].text,
                            panel |-> [id |-> dashboard.panels[pi].id,
                                       title |-> dashboard.panels[pi].title],
                            source |-> Result.err])
            /\ net' = net
            /\ calls' = calls]_vars
    /\ [][pc # "failed"]_vars
    /\ [](ReplayFailed =>
            /\ IsErr(calls[Len(calls)].res)
            /\ calls[Len(calls)].for = [stage |-> "panel", ci |-> ci, pi |-> pi, ti |-> ti]
            /\ net[Len(net)].call = Len(calls)
            /\ exit.err.panel.id = dashboard.panels[calls[Len(calls)].for.pi].id)
    /\ [](\A j, k \in PanelCalls : calls[j].for = calls[k].for => j = k)

\* C9 witness: a panel query failed while a later query of the panel and a
\* later combination were still to run.
C9_Witness ==
    /\ ReplayFailed
    /\ ci < Len(combinations)
    /\ ti < Len(sql(dashboard.panels[pi]))
    /\ Cardinality(PanelCalls) > 1

\* The query calls get_variants made, and its query_native calls.
VariableQueries == {k \in VariableCalls : calls[k].op = "query"}

VariableNatives == {k \in VariableCalls : calls[k].op = "query_native"}

\* get_variants has gone past its client.query call k.
PastQuery(k) == ~(pc = "tsv" /\ call["main"].id = k)

\* The query_native calls of get_variants so far are those the code makes.
NativeWithTemplate ==
    /\ \A k \in 1..Len(calls) :
           (/\ calls[k].for.stage = "variable" /\ calls[k].op = "query"
            /\ IsOk(calls[k].res) /\ PastQuery(k)) =>
               /\ k + 1 <= Len(calls)
               /\ calls[k + 1].op = "query_native"
               /\ calls[k + 1].for = calls[k].for
               /\ calls[k + 1].text = variables(dashboard)[calls[k].for.vi].query
               /\ LET sends == SendQueriesOf(k + 1) IN
                  /\ Cardinality(sends) = 1
                  /\ \A s \in sends :
                         /\ net[s].format = "Native"
                         /\ \A r \in RequestsOf(k) : r < s
    /\ \A k \in 1..Len(calls) :
           (calls[k].for.stage = "variable" /\ calls[k].op = "query_native") =>
               /\ k > 1
               /\ calls[k - 1].for.stage = "variable"
               /\ calls[k - 1].op = "query"
               /\ IsOk(calls[k - 1].res)
               /\ \A k2 \in 1..(k - 1) :
                      ~(calls[k2].op = "query_native" /\ calls[k2].for = calls[k].for)
    /\ (EnumerationFailed /\ exit = Err([kind |-> "shape"])) =>
           /\ calls # <<>>
           /\ calls[Len(calls)].for.stage = "variable"
           /\ calls[Len(calls)].op = "query_native"
           /\ IsOk(calls[Len(calls)].res)
           /\ calls[Len(calls)].for.vi = vi

TabularSends == {r \in 1..Len(net) : net[r].format = "TSV" /\ net[r].retry = 0}

\* The substituted texts get_variants has called client.query with.
TextsEncountered == {calls[k].text : k \in VariableQueries}

\* The tabular send_query calls so far, one per substituted text.
OneTabularSendPerText ==
    /\ \A r1, r2 \in TabularSends : net[r1].text = net[r2].text => r1 = r2
    /\ Cardinality(TabularSends) = Cardinality(TextsEncountered)
    /\ \A r \in TabularSends : net[r].call \in VariableQueries

\* C16: in one run of the enumeration, send_query is called with format TSV
\* once at most for one substituted text, however many (variable, prefix
\* assignment) pairs resolve to it, and as many times as there are distinct
\* substituted texts among the client.query calls of get_variants.
C16_OneTabularSendPerText == []OneTabularSendPerText

\* C16 witness: an enumeration that returned after two prefix assignments
\* resolved the query of a variable to one substituted text, with one tabular
\* send_query call.
C16_Witness ==
    /\ EnumerationReturned
    /\ Cardinality(VariableQueries) = 2
    /\ TextsEncountered = {<<"q", "x">>}
    /\ Cardinality(TabularSends) = 1

\* The names of the first i variables of the dashboard.
NamesUpTo(i) == {variables(dashboard)[k].name : k \in 1..i}

\* The keys of the working list and of the list being built for variable vi.
KeysOfProcessed ==
    vi >= 1 =>
        /\ \A k \in 1..Len(combinations) :
               /\ DOMAIN combinations[k] = NamesUpTo(vi - 1)
               /\ DistinctNames(dashboard) =>
                      Cardinality(DOMAIN combinations[k]) = vi - 1
        /\ \A k \in 1..Len(combinations2) :
               DOMAIN combinations2[k] = NamesUpTo(vi)
        /\ EnumerationReturned =>
               /\ vi = Len(variables(dashboard)) + 1
               /\ \A k \in 1..Len(combinations) :
                      DOMAIN combinations[k] = Names(dashboard)

\* C19: once variables_combinations has processed the first i variables,
\* every assignment of the working list has the names of those i variables
\* as its keys, i keys when the names are distinct, with one value each;
\* every assignment returned has a value for every variable of the dashboard.
C19_KeysOfProcessed == []KeysOfProcessed

\* C19 witness: two variables of distinct names, one resolved from the
\* database, enumerated into two assignments or more.
C19_Witness ==
    /\ EnumerationReturned
    /\ Len(variables(dashboard)) = 2
    /\ DistinctNames(dashboard)
    /\ VariableCalls # {}
    /\ Len(combinations) >= 2
    /\ \A k \in 1..Len(combinations) : Cardinality(DOMAIN combinations[k]) = 2

\* get_variants has an error to return: the variable is unsupported, its
\* query has a missing reference, or a client call returned an error or rows
\* of more than one column.
CandidateFailure ==
    \/ /\ pc = "enum"
       /\ vi <= Len(variables(dashboard)) /\ ai <= Len(combinations)
       /\ Override(config, variables(dashboard)[vi]) = None
       /\ \/ VariantsArm(variables(dashboard)[vi]) = "unsupported"
          \/ /\ VariantsArm(variables(dashboard)[vi]) = "clickhouse"
             /\ MissingIn(variables(dashboard)[vi].query, combinations[ai]) # {}
    \/ /\ pc \in {"tsv", "native"} /\ Returns /\ IsErr(Result)
    \/ /\ pc = "native" /\ Returns /\ MultiColumn(resp)

\* C20: a failure of get_variants for any prefix assignment ends the run in
\* the next step with an error and without a list, whatever the working list
\* and the list being built hold; the run does nothing after it; a panel
\* query is sent only once every variable has been processed without error,
\* so that a failed enumeration has sent no panel query.
C20_FailureAbortsEnumeration ==
    /\ [][CandidateFailure =>
            /\ pc' = "failed" /\ IsErr(exit')
            /\ ci' = 0
            /\ calls' = calls /\ net' = net]_vars
    /\ [][pc # "failed"]_vars
    /\ [](EnumerationFailed => (PanelCalls = {} /\ IsErr(exit)))
    /\ [](PanelCalls # {} =>
            /\ EnumerationReturned
            /\ vi = Len(variables(dashboard)) + 1
            /\ \A k \in VariableCalls : IsOk(calls[k].res)
            /\ \A k \in VariableCalls, p \in PanelCalls : k < p)

\* C20 witness: the enumeration failed on the second prefix assignment of the
\* second variable, with assignments already built for the first prefix, on
\* a dashboard that has panel queries; none was sent.
C20_Witness ==
    /\ EnumerationFailed
    /\ vi = 2 /\ ai = 2
    /\ combinations2 # <<>>
    /\ \E p \in 1..Len(dashboard.panels) : sql(dashboard.panels[p]) # <<>>
    /\ PanelCalls = {}

\* The working list is empty and variables are still to be processed.
EmptyWorkingList ==
    /\ pc = "enum"
    /\ vi >= 1 /\ vi <= Len(variables(dashboard))
    /\ combinations = <<>>

\* This step ends the inner loop body for prefix assignment ai of variable vi.
PrefixDone == pc \in {"enum", "native"} /\ vi' = vi /\ ai' = ai + 1

\* C21: a prefix assignment under which the variable has no candidate adds
\* nothing to the list being built (each prefix adds one assignment per
\* candidate); with an empty working list the enumeration only moves on to
\* the next variable, without a call, a request or an error, whatever the
\* kind of the variables left; it returns the empty list, the replay makes no
\* panel call, and the run ends with Ok.
C21_EmptyListEndsQuietly ==
    /\ [][PrefixDone =>
            Len(combinations2') =
                Len(combinations2)
                    + Len(CandidatesUnder(variables(dashboard)[vi], combinations[ai]))]_vars
    /\ [][EmptyWorkingList =>
            /\ pc' = "enum" /\ vi' = vi + 1
            /\ combinations' = <<>> /\ combinations2' = <<>>
            /\ calls' = calls /\ net' = net /\ cache' = cache
            /\ exit' = exit]_vars
    /\ [][(pc = "replay" /\ combinations = <<>>) =>
            (pc' = "done" /\ exit' = Ok("unit") /\ calls' = calls /\ net' = net)]_vars
    /\ []((EnumerationReturned /\ combinations = <<>>) =>
            /\ pc \in {"replay", "done"}
            /\ PanelCalls = {}
            /\ ~IsErr(exit))

\* C21 witness: the first variable has no option, the second is of an
\* unsupported datasource, the dashboard has panel queries: the run ended
\* with Ok on an empty list and nothing was sent.
C21_Witness ==
    /\ pc = "done" /\ exit = Ok("unit")
    /\ combinations = <<>>
    /\ Len(variables(dashboard)) = 2
    /\ variables(dashboard)[1].options = <<>>
    /\ variables(dashboard)[1].datasource = None
    /\ Unsupported(variables(dashboard)[2])
    /\ DOMAIN config \cap Names(dashboard) = {}
    /\ \E p \in 1..Len(dashboard.panels) : sql(dashboard.panels[p]) # <<>>
    /\ net = <<>>

====
